---- MODULE Spec2Model ----
(***************************************************************************)
(* Persistence and archival core of AutoResumeFiller:                      *)
(*   backend/services/data/user_data_manager.py  (UserDataManager)         *)
(*   backend/services/data/data_exporter.py      (DataExporter)            *)
(*                                                                         *)
(* The data directory is the shared state.  Every process that uses the   *)
(* directory runs the methods of UserDataManager / DataExporter one        *)
(* file-system call at a time; a process's position is pc[p] and its       *)
(* local variables are loc[p].                                             *)
(***************************************************************************)
EXTENDS Integers, Sequences, FiniteSets, TLC

RECURSIVE TotalSize(_)

\* ------------------------------------------------------------------ sizes
\* _cleanup_old_backups(max_backups=10)
MaxBackups == 10
\* clock readings per second: datetime.now() and st_mtime are finer than the
\* second that strftime("%Y%m%d_%H%M%S") keeps
TicksPerSec == 2
\* the clock runs from 0 (the first call) to MaxTime
MaxTime == 2
\* number of calls made in one run
MaxOps == 2
\* the same two bounds for the runs in which two processes share the store
MaxSharedTime == 1
MaxSharedOps == 2
\* and for the runs in which one process also imports bundles
MaxImportTime == 1
MaxImportOps == 2
\* number of exports and validations made in one run
MaxBundleOps == 2
\* how deep the mappings and lists of a config.yaml are nested
MaxDepth == 2

Procs == {1, 2}

\* ------------------------------------------------------------ file contents
\* profile data that passes the UserProfile schema
Records == {"A", "B"}
\* profile data that is well-formed JSON and fails the schema
\* (e.g. personal_info.first_name == "")
BadRecord == "Z"

\* A YAML document as yaml.safe_load reads it: a scalar, a mapping (its
\* entries in the order of the document) or a list (entries without keys)
Str(v) == [kind |-> "str", val |-> v, items |-> << >>]
Entry(k, t) == [key |-> k, value |-> t]
Map(entries) == [kind |-> "map", val |-> "", items |-> entries]
List(values) ==
    [kind |-> "list", val |-> "",
     items |-> [i \in DOMAIN values |-> Entry("", values[i])]]
NoTree == Str("")

\* The bytes of a file: a JSON profile document, or bytes that are no JSON
\* (an empty or truncated file, a resume, a YAML document: its tree).
EmptyBytes == [json |-> FALSE, rec |-> "-", ts |-> 0, tree |-> NoTree]

\* (a serialization that loses the record)
SerializeLossy(rec, ts) ==
    [json |-> TRUE, rec |-> "A", ts |-> ts, tree |-> NoTree]

\* profile.model_dump_json(indent=2)
Serialize(rec, ts) ==
    [json |-> TRUE, rec |-> rec, ts |-> ts, tree |-> NoTree]

\* json.load(f): raises JSONDecodeError unless the bytes are JSON
WellFormed(bytes) == bytes.json

\* UserProfile(**data): raises ValidationError unless the data fits the schema
SchemaValid(bytes) == bytes.json /\ bytes.rec \in Records

\* UserProfile(**data) for valid data: the model validator update_timestamp
\* overwrites last_updated with the time of construction
ParseProfile(bytes, t) == [rec |-> bytes.rec, last_updated |-> t]

NoFile == [exists |-> FALSE, bytes |-> EmptyBytes, mtime |-> 0]
File(bytes, mtime) == [exists |-> TRUE, bytes |-> bytes, mtime |-> mtime]

\* strftime("%Y%m%d_%H%M%S"): the clock reading cut to its second
Stamp(t) == t \div TicksPerSec

\* ------------------------------------------------------------------ bundles
\* bytes that are no JSON document, told apart by id
RawBytes(id) == [json |-> FALSE, rec |-> id, ts |-> 0, tree |-> NoTree]

\* the text of a YAML file: the comment line at its head and the document
YamlBytes(head, tree) == [json |-> FALSE, rec |-> head, ts |-> 0, tree |-> tree]

\* the bytes of a ZIP archive read as text
ZipBytes == RawBytes("zip")

\* hashlib.sha256 over the bytes: equal exactly for equal bytes
CalculateChecksum(bytes) == <<"sha256", bytes>>

\* st_size: an empty file has none; profile documents of different records
\* and auxiliary files of different content may have the same length
SizeOf(bytes) == IF bytes = EmptyBytes THEN 0 ELSE IF bytes.json THEN 2 ELSE 1

AuxDirs == {"resumes", "cover_letters"}
AuxNames == {"f1"}
NoDir == [exists |-> FALSE, files |-> << >>]
Dir(files) == [exists |-> TRUE, files |-> files]

ProfilePath == [dir |-> "data", name |-> "user_profile.json"]
ConfigPath == [dir |-> ".", name |-> "config.yaml"]
AuxPath(d, n) == [dir |-> d, name |-> n]

\* (an entry with a size that is not the file's)
FileMetaWrongSize(path, bytes) ==
    [path |-> path, size_bytes |-> SizeOf(bytes) + 1,
     checksum_sha256 |-> CalculateChecksum(bytes)]

\* one element of metadata["files"]
FileMeta(path, bytes) ==
    [path |-> path, size_bytes |-> SizeOf(bytes),
     checksum_sha256 |-> CalculateChecksum(bytes)]

\* "1.0.0" and "2.0.0" as their characters' code points; Python compares
\* version strings character by character
Version100 == <<49, 46, 48, 46, 48>>
Version200 == <<50, 46, 48, 46, 48>>

\* the decimal digits of a number below 100, and "major.minor.patch"
Digits(n) == IF n < 10 THEN <<48 + n>> ELSE <<48 + (n \div 10), 48 + (n % 10)>>
VersionString(t) ==
    Digits(t[1]) \o <<46>> \o Digits(t[2]) \o <<46>> \o Digits(t[3])

\* a > b for two strings
StrGreater(a, b) ==
    \E i \in 1..Len(a) :
        /\ \A j \in 1..(i - 1) : j <= Len(b) /\ a[j] = b[j]
        /\ i > Len(b) \/ a[i] > b[i]

\* sum(f["size_bytes"] for f in files)
TotalSize(files) ==
    IF files = {} THEN 0
    ELSE LET f == CHOOSE x \in files : TRUE
         IN  f.size_bytes + TotalSize(files \ {f})

\* the metadata.json that _generate_metadata makes for a list of files and
\* a list of folders that were not found
GenerateMetadata(files, missing_dirs) ==
    [present |-> TRUE, app_version |-> Version100, files |-> files,
     file_count |-> Cardinality(files), total_size_bytes |-> TotalSize(files),
     missing_directories |-> missing_dirs]

\* no metadata.json, and a metadata.json of some version of the application
NoManifest ==
    [present |-> FALSE, app_version |-> << >>, files |-> {}, file_count |-> 0,
     total_size_bytes |-> 0, missing_directories |-> << >>]
Manifest(version, files) ==
    [GenerateMetadata(files, << >>) EXCEPT !.app_version = version]

\* what is at a ZIP path: whether the path exists, whether the archive can
\* be read, and the files and the metadata.json in it
NoBundle ==
    [exists |-> FALSE, readable |-> FALSE, profile |-> NoFile,
     aux |-> [d \in AuxDirs |-> NoDir], config |-> NoFile,
     manifest |-> NoManifest]
Bundle(profile, auxdirs, manifest) ==
    [exists |-> TRUE, readable |-> TRUE, profile |-> profile,
     aux |-> auxdirs, config |-> NoFile, manifest |-> manifest]

\* the file a bundle holds at a path
BundleFile(b, path) ==
    IF path = ProfilePath
      THEN b.profile
    ELSE IF path = ConfigPath
      THEN b.config
      ELSE IF /\ path.dir \in AuxDirs
              /\ b.aux[path.dir].exists
              /\ path.name \in DOMAIN b.aux[path.dir].files
        THEN File(b.aux[path.dir].files[path.name], 0)
        ELSE NoFile

VARIABLES
    now,        \* the system clock, in ticks
    canonical,  \* data_dir/user_profile.json
    backups,    \* data_dir/backups/auto_backup_<stamp>.json, by stamp
    archives,   \* data_dir/backups/autoresumefiller_backup_<stamp>.zip
    aux,        \* data_dir/resumes and data_dir/cover_letters
    temp,       \* data_dir/.user_profile_*.tmp of each process (mkstemp)
    locks,      \* the flock each process holds on user_profile.json
    pc,         \* where each process is
    loc,        \* the local variables of each process's current call
    result,     \* what each process's last call returned or raised
    pre,        \* the store as it was when each process's call began
    budget,     \* calls that may still be made in this run
    hist,       \* the overwriting saves made so far, while nothing else was done
    config,     \* data_dir/config.yaml
    env         \* platform.system() and whether PyYAML can be imported

vars ==
    <<now, canonical, backups, archives, aux, temp, locks, pc, loc, result, pre,
      budget, hist, config, env>>

NoLoc ==
    [op |-> "none", rec |-> "-", cb |-> FALSE, json |-> EmptyBytes,
     name |-> <<"auto", 0>>, ret |-> "-", fh |-> EmptyBytes,
     linked |-> FALSE,
     bundle |-> NoBundle, backup_existing |-> FALSE, warnings |-> {},
     backup_path |-> << >>, files_restored |-> 0,
     confirm |-> FALSE, asked |-> 0, progress_callback |-> FALSE]
NoResult ==
    [status |-> "-", rec |-> "-", files_restored |-> 0, warnings |-> {},
     backup_created |-> << >>, errors |-> {}, metadata |-> NoManifest,
     listing |-> << >>, missing_directories |-> << >>, progress |-> << >>]

Snapshot ==
    [canonical |-> canonical, backups |-> backups, archives |-> archives,
     aux |-> aux, config |-> config]

\* hist.plain: every call so far was a load or a save with create_backup=True
\* that succeeded; then hist.overwrites counts the saves that replaced a
\* canonical file and hist.overwritten lists the bytes they replaced, the
\* latest first, up to MaxBackups of them.  hist.saved is the record of the
\* last call when that call was a save that succeeded or a load after one,
\* and "-" otherwise.  hist.deleted is the canonical file that the last call
\* unlinked when that call was a delete, is kept through a restore that is
\* called right after it, and is NoFile otherwise
NoHist ==
    [plain |-> FALSE, overwrites |-> 0, overwritten |-> << >>, saved |-> "-",
     deleted |-> NoFile]

Overwrite(h, bytes) ==
    IF ~h.plain THEN h
    ELSE [h EXCEPT !.overwrites = @ + 1,
                   !.overwritten = SubSeq(<<bytes>> \o @, 1,
                       IF Len(@) + 1 > MaxBackups THEN MaxBackups ELSE Len(@) + 1)]

\* ------------------------------------------------------------ initial states
\* UserDataManager.__init__ creates data_dir and backups/ and nothing else.
EmptyStore ==
    /\ canonical = NoFile
    /\ backups = << >>
    /\ hist = [plain |-> TRUE, overwrites |-> 0, overwritten |-> << >>,
               saved |-> "-", deleted |-> NoFile]

\* The store after n+1 saves of record "A", one second apart, the last one a
\* second before the run begins: a canonical file and n backups.
StoreAfter(n) ==
    /\ canonical = File(Serialize("A", -TicksPerSec), -TicksPerSec)
    /\ backups = [s \in (-n)..(-1) |->
                    File(Serialize("A", (s - 1) * TicksPerSec), (s - 1) * TicksPerSec)]
    /\ hist = [plain |-> TRUE, overwrites |-> n,
               overwritten |-> [i \in 1..n |->
                                  Serialize("A", (-i - 1) * TicksPerSec)],
               saved |-> "A", deleted |-> NoFile]

\* the histories a run starts from: short ones and those that fill the
\* backups folder
HistSizes == {0, MaxBackups - 1, MaxBackups}

InitProcs ==
    /\ now = 0
    /\ archives = << >>
    /\ aux = [d \in AuxDirs |-> NoDir]
    /\ temp = [p \in Procs |-> NoFile]
    /\ locks = [p \in Procs |-> "none"]
    /\ pc = [p \in Procs |-> "idle"]
    /\ loc = [p \in Procs |-> NoLoc]
    /\ result = [p \in Procs |-> NoResult]
    /\ pre = [p \in Procs |->
                [canonical |-> NoFile, backups |-> << >>, archives |-> << >>,
                 aux |-> [d \in AuxDirs |-> NoDir], config |-> NoFile]]

\* Linux with PyYAML installed
DefaultEnv == [system |-> "Linux", yaml |-> TRUE]

\* a config.yaml with an API key in it
LiveConfig ==
    File(YamlBytes("", Map(<<Entry("api_key", Str("v")),
                             Entry("name", Str("v"))>>)), -TicksPerSec)

Init ==
    /\ InitProcs
    /\ budget = MaxOps
    /\ config = NoFile
    /\ env = DefaultEnv
    /\ \/ EmptyStore
       \/ \E n \in HistSizes : StoreAfter(n)

InitShared ==
    /\ InitProcs
    /\ budget = MaxSharedOps
    /\ config = NoFile
    /\ env = DefaultEnv
    /\ \/ EmptyStore
       \/ \E n \in {0, 1} : StoreAfter(n)

InitImport ==
    /\ InitProcs
    /\ budget = MaxImportOps
    /\ config \in {NoFile, LiveConfig}
    /\ env = DefaultEnv
    /\ \/ EmptyStore
       \/ \E n \in {0, 1} : StoreAfter(n)

\* ------------------------------------------------------------------ helpers
Goto(p, label) == pc' = [pc EXCEPT ![p] = label]

\* what is left of a call's locals when it has returned: its arguments
Arguments(l) ==
    [NoLoc EXCEPT !.op = l.op, !.rec = l.rec, !.cb = l.cb, !.name = l.name,
                  !.bundle = l.bundle, !.backup_existing = l.backup_existing,
                  !.confirm = l.confirm, !.asked = l.asked,
                  !.progress_callback = l.progress_callback]

\* the call of p returns res; l are the locals of all processes before that
Leave(p, l, res) ==
    /\ pc' = [pc EXCEPT ![p] = "idle"]
    /\ loc' = [l EXCEPT ![p] = Arguments(@)]
    /\ result' = [result EXCEPT ![p] = res]

\* the call returns (status "ok") or raises (any other status)
Return(p, status, rec) ==
    Leave(p, loc, [NoResult EXCEPT !.status = status, !.rec = rec])

\* a call of p goes on from label; no step of these calls writes config.yaml
At(p, label) ==
    /\ pc[p] = label
    /\ UNCHANGED <<config, env>>

\* a process calls a method
Begin(p) ==
    /\ At(p, "idle")
    /\ UNCHANGED <<config, env>>
    /\ budget > 0
    /\ budget' = budget - 1
    /\ pre' = [pre EXCEPT ![p] = Snapshot]

\* the call goes on at label with the locals l, and no result yet
Start(p, l, label) ==
    /\ pc' = [pc EXCEPT ![p] = label]
    /\ loc' = [loc EXCEPT ![p] = l]
    /\ result' = [result EXCEPT ![p] = NoResult]

\* the call returns at once
ReturnAtOnce(p, l, status, rec) ==
    Leave(p, [loc EXCEPT ![p] = l],
          [NoResult EXCEPT !.status = status, !.rec = rec])

\* ------------------------------------------------------------------- clock
Tick(limit) ==
    /\ now < limit
    /\ now' = now + 1
    /\ UNCHANGED <<canonical, backups, archives, aux, temp, locks, pc, loc, result,
                   pre, budget, hist, config, env>>

\* -------------------------------------------------- UserDataManager._lock_file
\* POSIX: fcntl.flock(fd, LOCK_SH | LOCK_NB) / (LOCK_EX | LOCK_NB): granted
\* unless another process holds a conflicting lock, and then it raises at once.
\* Windows: msvcrt.locking(fd, LK_NBRLCK, 1) / (fd, LK_NBLCK, 1): LK_NBRLCK
\* is the same as LK_NBLCK, the byte is locked for this handle alone, and the
\* call raises when another handle has it locked
LockGranted(p, exclusive) ==
    IF env.system = "Windows"
      THEN \A q \in Procs \ {p} : locks[q] = "none"
      ELSE \A q \in Procs \ {p} :
              /\ locks[q] # "exclusive"
              /\ exclusive => locks[q] = "none"

\* --------------------------------------------- UserDataManager._create_backup
\* (a rotation whose glob matches the export ZIPs too, so that each of them
\* takes one of the max_backups places)
KeptBackupsCountingArchives(max_backups) ==
    LET places == IF max_backups > Cardinality(DOMAIN archives)
                    THEN max_backups - Cardinality(DOMAIN archives) ELSE 0
    IN  {keep \in SUBSET DOMAIN backups :
            /\ \/ Cardinality(keep) = places
               \/ keep = DOMAIN backups /\ Cardinality(keep) <= places
            /\ \A k \in keep : \A d \in DOMAIN backups \ keep :
                   backups[k].mtime >= backups[d].mtime}

\* (a rotation that keeps one entry too many)
KeptBackupsOneMore(max_backups) ==
    {keep \in SUBSET DOMAIN backups :
        /\ \/ Cardinality(keep) = max_backups + 1
           \/ keep = DOMAIN backups /\ Cardinality(keep) <= max_backups + 1
        /\ \A k \in keep : \A d \in DOMAIN backups \ keep :
               backups[k].mtime >= backups[d].mtime}

\* every set of entries that the sort by st_mtime, newest first, can put in
\* the first max_backups places (entries of equal mtime come in any order)
KeptBackups(max_backups) ==
    {keep \in SUBSET DOMAIN backups :
        /\ \/ Cardinality(keep) = max_backups
           \/ keep = DOMAIN backups /\ Cardinality(keep) <= max_backups
        /\ \A k \in keep : \A d \in DOMAIN backups \ keep :
               backups[k].mtime >= backups[d].mtime}

\* the backups folder after shutil.copy2(user_profile_path, backup_path):
\* the entry named by the current second holds the canonical bytes and, as
\* copy2 copies the file times too, the canonical file's mtime
BackupCopied ==
    (Stamp(now) :> File(canonical.bytes, canonical.mtime)) @@ backups

\* _create_backup up to the copy; it returns at once when there is no file
CreateBackup(p) ==
    /\ At(p, "bk_copy")
    /\ IF ~canonical.exists
         THEN /\ Goto(p, loc[p].ret)
              /\ UNCHANGED backups
         ELSE /\ backups' = BackupCopied
              /\ Goto(p, "bk_cleanup")
    /\ UNCHANGED <<now, canonical, archives, aux, temp, locks, loc, result, pre, budget, hist>>

\* _cleanup_old_backups: unlink every entry after the first max_backups
CleanupOldBackups(p) ==
    /\ At(p, "bk_cleanup")
    /\ \E keep \in KeptBackups(MaxBackups) :
           backups' = [k \in keep |-> backups[k]]
    /\ Goto(p, loc[p].ret)
    /\ UNCHANGED <<now, canonical, archives, aux, temp, locks, loc, result, pre, budget, hist>>

\* ------------------------------------------ UserDataManager.save_user_profile
\* (a save that leaves last_updated at a time long past)
SaveLocalsOldTimestamp(l, rec, cb) ==
    [l EXCEPT !.rec = rec, !.cb = cb,
              !.json = Serialize(rec, -(MaxBackups + 2) * TicksPerSec),
              !.ret = "sv_mktemp"]

\* the locals of save_user_profile(profile, create_backup) after
\* profile.last_updated = datetime.now() and model_dump_json
SaveLocals(l, rec, cb) ==
    [l EXCEPT !.rec = rec, !.cb = cb, !.json = Serialize(rec, now),
              !.ret = "sv_mktemp"]

\* (a save that makes a backup whatever create_backup is)
SaveEntryAlways(cb) == IF canonical.exists THEN "bk_copy" ELSE "sv_mktemp"

\* if create_backup and self.user_profile_path.exists(): self._create_backup()
SaveEntry(cb) == IF cb /\ canonical.exists THEN "bk_copy" ELSE "sv_mktemp"

CallSave(p) ==
    \E rec \in Records, cb \in BOOLEAN :
        /\ Begin(p)
        /\ Start(p, SaveLocals([NoLoc EXCEPT !.op = "save"], rec, cb),
                 SaveEntry(cb))
        /\ hist' = [(IF cb THEN hist ELSE NoHist) EXCEPT !.saved = "-",
                                                          !.deleted = NoFile]
        /\ UNCHANGED <<now, canonical, backups, archives, aux, temp, locks>>

\* tempfile.mkstemp(dir=data_dir): outside the try block, so a failure leaves
\* save_user_profile as the OSError it is
SaveMkstemp(p) ==
    /\ At(p, "sv_mktemp")
    /\ \/ /\ temp' = [temp EXCEPT ![p] = File(EmptyBytes, now)]
          /\ Goto(p, "sv_write")
          /\ UNCHANGED <<loc, result, hist>>
       \/ /\ Return(p, "OSError", "-")
          /\ hist' = NoHist
          /\ UNCHANGED temp
    /\ UNCHANGED <<now, canonical, backups, archives, aux, locks, pre, budget>>

\* (a save that writes the new bytes into the canonical file itself)
SaveWriteInPlace(p) ==
    /\ At(p, "sv_write")
    /\ \/ /\ canonical' = File(loc[p].json, now)
          /\ Goto(p, "sv_replace")
          /\ UNCHANGED hist
       \/ /\ canonical' = File(EmptyBytes, now)
          /\ Goto(p, "sv_except")
          /\ hist' = NoHist
    /\ UNCHANGED <<now, backups, archives, aux, temp, locks, loc, result, pre,
                   budget>>

\* f.write(json_data); f.flush(); os.fsync(): a failure leaves the temporary
\* file with none or all of the bytes and enters the except block
SaveWrite(p) ==
    /\ At(p, "sv_write")
    /\ \/ /\ temp' = [temp EXCEPT ![p] = File(loc[p].json, now)]
          /\ Goto(p, "sv_replace")
          /\ UNCHANGED hist
       \/ /\ \E b \in {EmptyBytes, loc[p].json} :
                 temp' = [temp EXCEPT ![p] = File(b, now)]
          /\ Goto(p, "sv_except")
          /\ hist' = NoHist
    /\ UNCHANGED <<now, canonical, backups, archives, aux, locks, loc, result,
                   pre, budget>>

\* the locals of every process after the canonical name is given to another
\* file or to none: a reader that has the file open keeps the file it opened
Unlinked(l) ==
    [q \in Procs |->
        IF pc[q] = "ld_read" THEN [l[q] EXCEPT !.linked = FALSE] ELSE l[q]]

\* (a save that copies the temporary file onto the canonical path and does
\* not rename it)
SaveReplaceCopies(p) ==
    /\ At(p, "sv_replace")
    /\ \/ /\ canonical' = temp[p]
          /\ Leave(p, Unlinked(loc),
                   [NoResult EXCEPT !.status = "ok", !.rec = loc[p].rec])
          /\ hist' = [(IF canonical.exists
                          THEN Overwrite(hist, canonical.bytes) ELSE hist)
                          EXCEPT !.saved = loc[p].rec]
          /\ UNCHANGED temp
       \/ /\ Goto(p, "sv_except")
          /\ hist' = NoHist
          /\ UNCHANGED <<canonical, temp, loc, result>>
    /\ UNCHANGED <<now, backups, archives, aux, locks, pre, budget>>

\* os.replace(temp_path, user_profile_path): the rename puts the temporary
\* file, with its times, under the canonical name, or fails and changes nothing
SaveReplace(p) ==
    /\ At(p, "sv_replace")
    /\ \/ /\ canonical' = temp[p]
          /\ temp' = [temp EXCEPT ![p] = NoFile]
          /\ Leave(p, Unlinked(loc),
                   [NoResult EXCEPT !.status = "ok", !.rec = loc[p].rec])
          /\ hist' = [(IF canonical.exists
                          THEN Overwrite(hist, canonical.bytes) ELSE hist)
                          EXCEPT !.saved = loc[p].rec]
       \/ /\ Goto(p, "sv_except")
          /\ hist' = NoHist
          /\ UNCHANGED <<canonical, temp, loc, result>>
    /\ UNCHANGED <<now, backups, archives, aux, locks, pre, budget>>

\* (an except block that forgets the temporary file)
SaveExceptKeepsTemp(p) ==
    /\ At(p, "sv_except")
    /\ Return(p, "IOError", "-")
    /\ UNCHANGED <<now, canonical, backups, archives, aux, temp, locks, pre,
                   budget, hist>>

\* (an except block that also takes the backup of this call back)
SaveExceptRollsBack(p) ==
    /\ At(p, "sv_except")
    /\ temp' = [temp EXCEPT ![p] = NoFile]
    /\ backups' = pre[p].backups
    /\ Return(p, "IOError", "-")
    /\ UNCHANGED <<now, canonical, archives, aux, locks, pre, budget, hist>>

\* except Exception: unlink the temporary file, raise IOError("Failed to save")
SaveExcept(p) ==
    /\ At(p, "sv_except")
    /\ temp' = [temp EXCEPT ![p] = NoFile]
    /\ Return(p, "IOError", "-")
    /\ UNCHANGED <<now, canonical, backups, archives, aux, locks, pre, budget, hist>>

\* ---------------------------------------- UserDataManager.delete_user_profile
\* (a delete that makes no backup)
CallDeleteNoBackup(p) ==
    /\ Begin(p)
    /\ LET l == [NoLoc EXCEPT !.op = "delete", !.ret = "dl_unlink"] IN
       IF ~canonical.exists
         THEN ReturnAtOnce(p, l, "ok", "False")
         ELSE Start(p, l, "dl_unlink")
    /\ hist' = NoHist
    /\ UNCHANGED <<now, canonical, backups, archives, aux, temp, locks>>

\* if not self.user_profile_path.exists(): return False; self._create_backup()
CallDelete(p) ==
    /\ Begin(p)
    /\ LET l == [NoLoc EXCEPT !.op = "delete", !.ret = "dl_unlink"] IN
       IF ~canonical.exists
         THEN ReturnAtOnce(p, l, "ok", "False")
         ELSE Start(p, l, "bk_copy")
    /\ hist' = NoHist
    /\ UNCHANGED <<now, canonical, backups, archives, aux, temp, locks>>

\* user_profile_path.unlink(); return True
DeleteUnlink(p) ==
    /\ At(p, "dl_unlink")
    /\ IF canonical.exists
         THEN /\ canonical' = NoFile
              /\ Leave(p, Unlinked(loc),
                       [NoResult EXCEPT !.status = "ok", !.rec = "True"])
              /\ hist' = [hist EXCEPT !.deleted = canonical]
         ELSE /\ Return(p, "FileNotFoundError", "-")
              /\ UNCHANGED <<canonical, hist>>
    /\ UNCHANGED <<now, backups, archives, aux, temp, locks, pre, budget>>

\* ---------------------------------------- UserDataManager.restore_from_backup
\* every name a caller can pass: the files of the backups folder, and the
\* name of a rolling backup that does not exist
BackupNames ==
    {<<"auto", n>> : n \in DOMAIN backups \cup {Stamp(MaxTime) + 1}}
        \cup {<<"zip", n>> : n \in DOMAIN archives}

\* backup_path.exists()
BackupPathExists(name) ==
    IF name[1] = "auto" THEN name[2] \in DOMAIN backups
                        ELSE name[2] \in DOMAIN archives

\* the bytes open(backup_path, 'r') reads
BackupPathBytes(name) ==
    IF name[1] = "auto" THEN backups[name[2]].bytes ELSE ZipBytes

\* if not backup_path.exists(): raise FileNotFoundError
CallRestore(p) ==
    \E name \in BackupNames :
        /\ Begin(p)
        /\ LET l == [NoLoc EXCEPT !.op = "restore", !.name = name] IN
           IF ~BackupPathExists(name)
             THEN ReturnAtOnce(p, l, "FileNotFoundError", "-")
             ELSE Start(p, l, "rs_load")
        /\ hist' = [NoHist EXCEPT !.deleted = IF loc[p].op = "delete"
                                                THEN hist.deleted ELSE NoFile]
        /\ UNCHANGED <<now, canonical, backups, archives, aux, temp, locks>>

\* (a restore that saves without a backup)
RestoreWithoutBackup == FALSE

\* self.save_user_profile(profile, create_backup=True)
RestoreCreateBackup == TRUE

\* (a restore that returns the profile of the backup and does not save it)
RestoreLoadOnly(p) ==
    /\ At(p, "rs_load")
    /\ IF ~BackupPathExists(loc[p].name)
         THEN Return(p, "FileNotFoundError", "-")
         ELSE LET bytes == BackupPathBytes(loc[p].name) IN
              IF ~WellFormed(bytes)
                THEN Return(p, "ValueError", "-")
                ELSE IF ~SchemaValid(bytes)
                  THEN Return(p, "ValidationError", "-")
                  ELSE Return(p, "ok", ParseProfile(bytes, now).rec)
    /\ UNCHANGED <<now, canonical, backups, archives, aux, temp, locks, pre, budget, hist>>

\* (a restore that saves whatever the backup file holds)
RestoreLoadUnvalidated(p) ==
    /\ At(p, "rs_load")
    /\ IF ~BackupPathExists(loc[p].name)
         THEN Return(p, "FileNotFoundError", "-")
         ELSE /\ loc' = [loc EXCEPT ![p] =
                           SaveLocals(@, BackupPathBytes(loc[p].name).rec,
                                      RestoreCreateBackup)]
              /\ Goto(p, SaveEntry(RestoreCreateBackup))
              /\ UNCHANGED result
    /\ UNCHANGED <<now, canonical, backups, archives, aux, temp, locks, pre,
                   budget, hist>>

\* open(backup_path); json.load; UserProfile(**data); then
\* save_user_profile(profile, create_backup=True) begins
RestoreLoad(p) ==
    /\ At(p, "rs_load")
    /\ IF ~BackupPathExists(loc[p].name)
         THEN Return(p, "FileNotFoundError", "-")
         ELSE LET bytes == BackupPathBytes(loc[p].name) IN
              IF ~WellFormed(bytes)
                THEN Return(p, "ValueError", "-")
                ELSE IF ~SchemaValid(bytes)
                  THEN Return(p, "ValidationError", "-")
                  ELSE /\ loc' = [loc EXCEPT ![p] =
                                    SaveLocals(@, ParseProfile(bytes, now).rec,
                                               RestoreCreateBackup)]
                       /\ Goto(p, SaveEntry(RestoreCreateBackup))
                       /\ UNCHANGED result
    /\ UNCHANGED <<now, canonical, backups, archives, aux, temp, locks, pre, budget, hist>>

\* ----------------------------------------------- UserDataManager.list_backups
RECURSIVE NewestFirst(_)
\* sorted(names, key=st_mtime, reverse=True): every order the sort can give
\* (entries of equal mtime come in the order of the glob, which is any)
NewestFirst(names) ==
    IF names = {} THEN {<< >>}
    ELSE UNION {{<<n>> \o rest : rest \in NewestFirst(names \ {n})} :
                  n \in {x \in names :
                           \A y \in names : backups[x].mtime >= backups[y].mtime}}

\* one element of the list: filename, created_at (from st_mtime), size_bytes
BackupInfo(n) ==
    [filename |-> <<"auto", n>>, created_at |-> backups[n].mtime,
     size_bytes |-> SizeOf(backups[n].bytes)]

\* list_backups(): reads the folder and changes nothing
CallList(p) ==
    \E order \in NewestFirst(DOMAIN backups) :
        /\ Begin(p)
        /\ Leave(p, [loc EXCEPT ![p] = [NoLoc EXCEPT !.op = "list"]],
                 [NoResult EXCEPT
                     !.status = "ok",
                     !.listing = [i \in DOMAIN order |-> BackupInfo(order[i])]])
        /\ UNCHANGED <<now, canonical, backups, archives, aux, temp, locks, hist>>

\* ------------------------------------------ UserDataManager.load_user_profile
\* if not self.user_profile_path.exists(): return None
CallLoad(p) ==
    /\ Begin(p)
    /\ LET l == [NoLoc EXCEPT !.op = "load"] IN
       IF ~canonical.exists
         THEN ReturnAtOnce(p, l, "ok", "None")
         ELSE Start(p, l, "ld_open")
    /\ UNCHANGED hist
    /\ UNCHANGED <<now, canonical, backups, archives, aux, temp, locks>>

\* open(user_profile_path, 'r'); self._lock_file(f, exclusive=False)
LoadOpen(p) ==
    /\ At(p, "ld_open")
    /\ IF ~canonical.exists
         THEN /\ Return(p, "FileNotFoundError", "-")
              /\ UNCHANGED locks
         ELSE IF ~LockGranted(p, FALSE)
           THEN /\ Return(p, "LockContention", "-")
                /\ UNCHANGED locks
           ELSE /\ locks' = [locks EXCEPT ![p] = "shared"]
                /\ loc' = [loc EXCEPT ![p].fh = canonical.bytes,
                                      ![p].linked = TRUE]
                /\ Goto(p, "ld_read")
                /\ UNCHANGED result
    /\ UNCHANGED <<now, canonical, backups, archives, aux, temp, pre, budget, hist>>

\* (a load that does not validate what it has parsed)
LoadReadUnvalidated(p) ==
    /\ At(p, "ld_read")
    /\ locks' = [locks EXCEPT ![p] = "none"]
    /\ IF ~WellFormed(loc[p].fh)
         THEN Return(p, "ValueError", "-")
         ELSE Return(p, "ok", ParseProfile(loc[p].fh, now).rec)
    /\ UNCHANGED <<now, canonical, backups, archives, aux, temp, pre, budget,
                   hist>>

\* json.load(f); UserProfile(**data); finally: self._unlock_file(f)
LoadRead(p) ==
    /\ At(p, "ld_read")
    /\ locks' = [locks EXCEPT ![p] = "none"]
    /\ IF ~WellFormed(loc[p].fh)
         THEN Return(p, "ValueError", "-")
         ELSE IF ~SchemaValid(loc[p].fh)
           THEN Return(p, "ValidationError", "-")
           ELSE Return(p, "ok", ParseProfile(loc[p].fh, now).rec)
    /\ UNCHANGED <<now, canonical, backups, archives, aux, temp, pre, budget, hist>>

\* ---------------------------------------------- DataExporter._redact_config
\* str.lower() on the keys that occur in the configurations of these runs
Lower(k) == IF k = "Password" THEN "password" ELSE k

\* key.lower() in ["api_key", "secret", "password", "token"]
SensitiveKeys == {"api_key", "secret", "password", "token"}
Redacted == Str("**REDACTED**")

RECURSIVE RedactRecursive(_)
\* redact_recursive(obj): in a mapping a sensitive key gets the marker and
\* any other mapping or list value is gone through; in a list every mapping
\* or list item is gone through; everything else stays
RedactRecursive(t) ==
    IF t.kind = "map"
      THEN [t EXCEPT !.items =
              [i \in DOMAIN t.items |->
                 IF Lower(t.items[i].key) \in SensitiveKeys
                   THEN Entry(t.items[i].key, Redacted)
                   ELSE IF t.items[i].value.kind \in {"map", "list"}
                     THEN Entry(t.items[i].key,
                                RedactRecursive(t.items[i].value))
                     ELSE t.items[i]]]
    ELSE IF t.kind = "list"
      THEN [t EXCEPT !.items =
              [i \in DOMAIN t.items |->
                 IF t.items[i].value.kind \in {"map", "list"}
                   THEN Entry("", RedactRecursive(t.items[i].value))
                   ELSE t.items[i]]]
      ELSE t

\* yaml.safe_load(f) or {}
SafeLoadOrEmpty(bytes) ==
    IF \/ bytes.tree.kind = "str" /\ bytes.tree.val = ""
       \/ bytes.tree.kind \in {"map", "list"} /\ bytes.tree.items = << >>
      THEN Map(<< >>)
      ELSE bytes.tree

\* the bytes _redact_config writes at output_path for the bytes of
\* config.yaml: the redacted document under a comment line, or, where PyYAML
\* cannot be imported, the text as it is under a warning
RedactConfig(bytes, yaml) ==
    IF ~yaml
      THEN YamlBytes("# WARNING: PyYAML not installed, API keys not redacted",
                     bytes.tree)
      ELSE YamlBytes("# API keys redacted for security",
                     RedactRecursive(SafeLoadOrEmpty(bytes)))

\* ------------------------------------------------- DataExporter.export_all
\* (an export that reports no folder as missing)
MissingDirsNone(auxdirs) == << >>

\* missing_dirs: "resumes" and then "cover_letters", each when the folder
\* does not exist
MissingDirs(auxdirs) ==
    SelectSeq(<<"resumes", "cover_letters">>, LAMBDA d : ~auxdirs[d].exists)

\* f"Directory not found: {d}"
DirectoryNotFound(d) ==
    IF d = "resumes" THEN "Directory not found: resumes"
                     ELSE "Directory not found: cover_letters"

\* the ZIP that export_all writes for a store: the profile, the redacted
\* config.yaml, every file of each auxiliary folder that exists, and
\* metadata.json listing them
\* (os.walk puts files into the ZIP: a folder without files is not in it)
ExportWith(profile, cfg, auxdirs, yaml) ==
    LET staged == [d \in AuxDirs |->
                     IF auxdirs[d].exists /\ DOMAIN auxdirs[d].files # {}
                       THEN Dir(auxdirs[d].files) ELSE NoDir]
        copied == {x \in {AuxPath(d, n) : d \in AuxDirs, n \in AuxNames} :
                     /\ staged[x.dir].exists
                     /\ x.name \in DOMAIN staged[x.dir].files}
        dest == RedactConfig(cfg.bytes, yaml)
        files_metadata ==
            (IF profile.exists
               THEN {FileMeta(ProfilePath, profile.bytes)} ELSE {})
            \cup (IF cfg.exists THEN {FileMeta(ConfigPath, dest)} ELSE {})
            \cup {FileMeta(x, staged[x.dir].files[x.name]) : x \in copied}
    IN  [Bundle(IF profile.exists THEN File(profile.bytes, 0) ELSE NoFile,
                staged, GenerateMetadata(files_metadata, MissingDirs(auxdirs)))
           EXCEPT !.config = IF cfg.exists THEN File(dest, 0) ELSE NoFile]

\* the files export_all stages, in the order in which it stages them:
\* user_profile.json, config.yaml, the files of resumes/, of cover_letters/
StagedFiles(b) ==
    LET paths == <<ProfilePath, ConfigPath, AuxPath("resumes", "f1"),
                   AuxPath("cover_letters", "f1")>>
    IN  SelectSeq(paths, LAMBDA x : BundleFile(b, x).exists)

RECURSIVE StagedBytes(_, _)
\* total_bytes (and current_bytes) after the first i staged files
StagedBytes(b, i) ==
    IF i = 0 THEN 0
    ELSE StagedBytes(b, i - 1) + SizeOf(BundleFile(b, StagedFiles(b)[i]).bytes)

\* the calls progress_callback(current_bytes, total_bytes, path) made while
\* b is staged: after each file total_bytes += size, current_bytes += size
ProgressCalls(b) ==
    [i \in DOMAIN StagedFiles(b) |->
        [current_bytes |-> StagedBytes(b, i), total_bytes |-> StagedBytes(b, i),
         path |-> StagedFiles(b)[i]]]

\* the same for a data directory without config.yaml
ExportOf(profile, auxdirs) == ExportWith(profile, NoFile, auxdirs, TRUE)

ExportAll == ExportWith(canonical, config, aux, env.yaml)

\* zipfile.ZipFile(output_path, "w") creates the ZIP at its final path and
\* zipf.write adds the staged files one by one: metadata.json and config.yaml
\* first, the folders after them
PartialZip(b) ==
    [b EXCEPT !.profile = NoFile, !.aux = [d \in AuxDirs |-> NoDir]]

\* what the backups folder can hold when export_all has raised, for the
\* output path named by stamp: what it held (staging failed), a ZIP that
\* cannot be read, or a ZIP without the files that were still to be added
ExportFailed(stamp) ==
    {archives, (stamp :> [NoBundle EXCEPT !.exists = TRUE]) @@ archives}
    \cup (IF ExportAll.profile.exists
            THEN {(stamp :> PartialZip(ExportAll)) @@ archives} ELSE {})

\* --------------------------------------------- DataExporter._validate_backup
\* (a validation that says nothing about the version)
VersionWarningsNone(backup_version) == {}

\* current_version = "1.0.0"; if backup_version > current_version: a warning
VersionWarnings(backup_version) ==
    IF StrGreater(backup_version, Version100)
      THEN {"Backup from newer version"} ELSE {}

\* (a validation that refuses a ZIP without metadata.json)
NoManifestRefused ==
    [valid |-> FALSE, errors |-> {<<"metadata.json not found">>},
     warnings |-> {}, metadata |-> NoManifest]

\* if "metadata.json" not in zipf.namelist(): a warning, and nothing else
\* is looked at
NoManifestResult ==
    [valid |-> TRUE, errors |-> {},
     warnings |-> {"metadata.json not found - unable to verify checksums"},
     metadata |-> NoManifest]

\* (a validation that stops at the first error it finds)
ValidateBackupFirstError(b) ==
    IF ~b.exists
      THEN [valid |-> FALSE, errors |-> {<<"Backup file not found">>},
            warnings |-> {}, metadata |-> NoManifest]
    ELSE IF ~b.readable
      THEN [valid |-> FALSE, errors |-> {<<"Backup is corrupted">>},
            warnings |-> {}, metadata |-> NoManifest]
    ELSE IF ~b.manifest.present
      THEN NoManifestResult
    ELSE
      LET metas == b.manifest.files
          missing == {m \in metas : ~BundleFile(b, m.path).exists}
          found == metas \ missing
          errors ==
              {<<"Missing file", m.path>> : m \in missing}
              \cup {<<"Checksum mismatch", m.path>> :
                      m \in {x \in found :
                               CalculateChecksum(BundleFile(b, x.path).bytes)
                                   # x.checksum_sha256}}
              \cup {<<"Size mismatch", m.path>> :
                      m \in {x \in found :
                               SizeOf(BundleFile(b, x.path).bytes) # x.size_bytes}}
              \cup (IF b.profile.exists /\ ~SchemaValid(b.profile.bytes)
                      THEN {<<"Invalid user profile schema">>} ELSE {})
      IN  [valid |-> errors = {},
           errors |-> IF errors = {} THEN {}
                      ELSE {CHOOSE e \in errors : TRUE},
           warnings |-> VersionWarnings(b.manifest.app_version),
           metadata |-> b.manifest]

\* what _validate_backup returns for the ZIP b: the errors of every listed
\* file and of the profile together
ValidateBackup(b) ==
    IF ~b.exists
      THEN [valid |-> FALSE, errors |-> {<<"Backup file not found">>},
            warnings |-> {}, metadata |-> NoManifest]
    ELSE IF ~b.readable
      THEN [valid |-> FALSE, errors |-> {<<"Backup is corrupted">>},
            warnings |-> {}, metadata |-> NoManifest]
    ELSE IF ~b.manifest.present
      THEN NoManifestResult
    ELSE
      LET metas == b.manifest.files
          missing == {m \in metas : ~BundleFile(b, m.path).exists}
          found == metas \ missing
          errors ==
              {<<"Missing file", m.path>> : m \in missing}
              \cup {<<"Checksum mismatch", m.path>> :
                      m \in {x \in found :
                               CalculateChecksum(BundleFile(b, x.path).bytes)
                                   # x.checksum_sha256}}
              \cup {<<"Size mismatch", m.path>> :
                      m \in {x \in found :
                               SizeOf(BundleFile(b, x.path).bytes) # x.size_bytes}}
              \cup (IF b.profile.exists /\ ~SchemaValid(b.profile.bytes)
                      THEN {<<"Invalid user profile schema">>} ELSE {})
      IN  [valid |-> errors = {}, errors |-> errors,
           warnings |-> VersionWarnings(b.manifest.app_version),
           metadata |-> b.manifest]

\* ------------------------------------------- DataExporter.import_from_backup
\* the ZIP files a caller imports
ImportedProfile == File(Serialize("B", -TicksPerSec), 0)
InvalidProfile == File(Serialize(BadRecord, -TicksPerSec), 0)
NoAux == [d \in AuxDirs |-> NoDir]
OneResume == [d \in AuxDirs |->
                IF d = "resumes" THEN Dir("f1" :> RawBytes("x")) ELSE NoDir]
OneCoverLetter ==
    [d \in AuxDirs |->
        IF d = "cover_letters" THEN Dir("f1" :> RawBytes("y")) ELSE NoDir]

\* the export of another data directory, whose config.yaml holds other keys
ImportedConfig ==
    File(YamlBytes("", Map(<<Entry("api_key", Str("w"))>>)), -TicksPerSec)
ExportedElsewhere ==
    ExportWith(ImportedProfile, ImportedConfig, OneResume, TRUE)

InputBundles ==
    { \* an export of another store
      ExportedElsewhere,
      \* a ZIP without metadata.json whose profile does not fit the schema
      Bundle(InvalidProfile, OneCoverLetter, NoManifest),
      \* an export that was changed afterwards: another profile, a resume
      \* cut to nothing, a cover letter taken out
      Bundle(File(Serialize("A", -TicksPerSec), 0),
             [d \in AuxDirs |->
                 IF d = "resumes" THEN Dir("f1" :> EmptyBytes) ELSE NoDir],
             Manifest(Version100,
                      {FileMeta(ProfilePath, ImportedProfile.bytes),
                       FileMeta(AuxPath("resumes", "f1"), RawBytes("x")),
                       FileMeta(AuxPath("cover_letters", "f1"), RawBytes("x"))})),
      \* an export of a profile that does not fit the schema
      Bundle(InvalidProfile, NoAux,
             Manifest(Version200, {FileMeta(ProfilePath, InvalidProfile.bytes)})),
      \* an export to which a cover letter was added afterwards: the ZIP holds
      \* a file that metadata.json does not list
      Bundle(ImportedProfile, OneCoverLetter,
             Manifest(Version100, {FileMeta(ProfilePath, ImportedProfile.bytes)})),
      \* an export of a data directory without a profile, with another resume
      Bundle(NoFile,
             [d \in AuxDirs |->
                 IF d = "resumes" THEN Dir("f1" :> RawBytes("z")) ELSE NoDir],
             Manifest(Version100,
                      {FileMeta(AuxPath("resumes", "f1"), RawBytes("z"))})),
      \* a path that does not exist, and a file that is no ZIP
      NoBundle,
      [NoBundle EXCEPT !.exists = TRUE] }

\* existing_files is not empty
ExistingFiles ==
    \/ canonical.exists
    \/ \E d \in AuxDirs : aux[d].exists /\ DOMAIN aux[d].files # {}

\* (a confirmation that is asked for whether or not there is existing data)
ConfirmAskedAlways(confirm) == confirm

\* if existing_files and confirm: the confirmation callback is called, once
ConfirmAsked(confirm) == ExistingFiles /\ confirm

\* raise ValueError(f"Backup validation failed: {', '.join(errors)}")
ValidationFailed(p, l, errors) ==
    Leave(p, [loc EXCEPT ![p] = l],
          [NoResult EXCEPT !.status = "ValueError", !.errors = errors])

\* (an import that does not look at the result of the validation)
CallImportUnvalidated(p) ==
    \E b \in InputBundles, confirm \in BOOLEAN, backup_existing \in BOOLEAN :
    \E confirmed \in (IF ConfirmAsked(confirm) THEN BOOLEAN ELSE {TRUE}) :
        LET validation == ValidateBackup(b)
            l == [NoLoc EXCEPT !.op = "import", !.bundle = b,
                               !.backup_existing = backup_existing,
                               !.warnings = validation.warnings,
                               !.confirm = confirm,
                               !.asked = IF ConfirmAsked(confirm) THEN 1 ELSE 0]
        IN
        /\ Begin(p)
        /\ IF ConfirmAsked(confirm) /\ ~confirmed
             THEN ReturnAtOnce(p, l, "cancelled", "-")
             ELSE Start(p, l, IF backup_existing /\ ExistingFiles
                                THEN "im_backup" ELSE "im_profile")
        /\ hist' = NoHist
        /\ UNCHANGED <<now, canonical, backups, archives, aux, temp, locks>>

\* validation, the look at the existing data and the confirmation
CallImport(p) ==
    \E b \in InputBundles, confirm \in BOOLEAN, backup_existing \in BOOLEAN :
    \E confirmed \in (IF ConfirmAsked(confirm) THEN BOOLEAN ELSE {TRUE}) :
        LET validation == ValidateBackup(b)
            asked == validation.valid /\ ConfirmAsked(confirm)
            l == [NoLoc EXCEPT !.op = "import", !.bundle = b,
                               !.backup_existing = backup_existing,
                               !.warnings = validation.warnings,
                               !.confirm = confirm,
                               !.asked = IF asked THEN 1 ELSE 0]
        IN
        /\ Begin(p)
        /\ IF ~validation.valid
             THEN ValidationFailed(p, l, validation.errors)
             ELSE IF ConfirmAsked(confirm) /\ ~confirmed
               THEN ReturnAtOnce(p, l, "cancelled", "-")
               ELSE Start(p, l, IF backup_existing /\ ExistingFiles
                                  THEN "im_backup" ELSE "im_profile")
        /\ hist' = NoHist
        /\ UNCHANGED <<now, canonical, backups, archives, aux, temp, locks>>

\* (a safety backup that holds the imported ZIP and not the store)
ImportBackupOfBundle(p) ==
    /\ At(p, "im_backup")
    /\ archives' = (Stamp(now) :> loc[p].bundle) @@ archives
    /\ loc' = [loc EXCEPT ![p].backup_path = <<"zip", Stamp(now)>>]
    /\ Goto(p, "im_profile")
    /\ UNCHANGED <<now, canonical, backups, aux, temp, locks, result, pre,
                   budget, hist>>

\* backup_result = self.export_all(): the ZIP is written at the default path,
\* or export_all raises, leaves nothing or a broken ZIP, and a warning is kept
ImportBackupExisting(p) ==
    /\ At(p, "im_backup")
    /\ \/ /\ archives' = (Stamp(now) :> ExportAll) @@ archives
          /\ loc' = [loc EXCEPT ![p].backup_path = <<"zip", Stamp(now)>>]
       \/ /\ archives' \in ExportFailed(Stamp(now))
          /\ loc' = [loc EXCEPT ![p].warnings =
                                    @ \cup {"Failed to backup existing data"}]
    /\ Goto(p, "im_profile")
    /\ UNCHANGED <<now, canonical, backups, aux, temp, locks, result, pre, budget, hist>>

\* the locals of every process after bytes are written into the canonical
\* file in place: a reader that has the same file open reads the new bytes
WrittenInPlace(l, bytes) ==
    [q \in Procs |->
        IF pc[q] = "ld_read" /\ l[q].linked THEN [l[q] EXCEPT !.fh = bytes]
                                            ELSE l[q]]

\* shutil.copy2(profile_src, user_profile_path) opens the canonical file for
\* writing, which empties it ...
ImportProfileOpen(p) ==
    /\ At(p, "im_profile")
    /\ IF loc[p].bundle.profile.exists
         THEN /\ canonical' = File(EmptyBytes, now)
              /\ loc' = WrittenInPlace(loc, EmptyBytes)
              /\ Goto(p, "im_profile_write")
         ELSE /\ Goto(p, "im_aux")
              /\ UNCHANGED <<canonical, loc>>
    /\ UNCHANGED <<now, backups, archives, aux, temp, locks, result, pre, budget, hist>>

\* ... and then writes the bytes of the bundle's profile into it, or fails
\* on the way (no space, no permission), and nothing catches the OSError
ImportProfileWrite(p) ==
    /\ At(p, "im_profile_write")
    /\ \/ /\ canonical' = File(loc[p].bundle.profile.bytes, now)
          /\ loc' = WrittenInPlace([loc EXCEPT ![p].files_restored = @ + 1],
                                   loc[p].bundle.profile.bytes)
          /\ Goto(p, "im_aux")
          /\ UNCHANGED result
       \/ /\ Return(p, "OSError", "-")
          /\ UNCHANGED canonical
    /\ UNCHANGED <<now, backups, archives, aux, temp, locks, pre, budget, hist>>

\* (an import that makes each auxiliary folder a mirror of the bundle's: a
\* folder that the bundle does not hold is removed)
AuxRestoredMirror(b, d) ==
    IF b.aux[d].exists THEN Dir(b.aux[d].files @@ aux[d].files) ELSE NoDir

\* (an import that restores no auxiliary file)
AuxRestoredNothing(b, d) == aux[d]

\* the auxiliary folder d after the bundle's files are copied into it
AuxRestored(b, d) ==
    IF b.aux[d].exists THEN Dir(b.aux[d].files @@ aux[d].files) ELSE aux[d]

\* (an import that restores the bundle's config.yaml as well)
ConfigRestoredFromBundle(b) == IF b.config.exists THEN b.config ELSE config

\* config.yaml after the import of b: it is NOT restored
ConfigRestored(b) == config

\* resumes/ and cover_letters/ are restored, config.yaml is not, and the
\* summary is returned
ImportAux(p) ==
    /\ pc[p] = "im_aux"
    /\ config' = ConfigRestored(loc[p].bundle)
    /\ UNCHANGED env
    /\ LET restored == {AuxPath(d, n) : d \in AuxDirs, n \in AuxNames}
           copied == {x \in restored : BundleFile(loc[p].bundle, x).exists}
       IN  \/ /\ aux' = [d \in AuxDirs |-> AuxRestored(loc[p].bundle, d)]
              /\ Leave(p, loc,
                   [NoResult EXCEPT
                       !.status = "ok",
                       !.files_restored =
                           loc[p].files_restored + Cardinality(copied),
                       !.warnings =
                           loc[p].warnings \cup {"config.yaml not imported"},
                       !.backup_created = loc[p].backup_path])
           \* the first copy into an auxiliary folder fails
           \/ /\ copied # {}
              /\ Return(p, "OSError", "-")
              /\ UNCHANGED aux
    /\ UNCHANGED <<now, canonical, backups, archives, temp, locks, pre, budget, hist>>

\* ------------------------------------------------------------------ a crash
\* the process dies in the middle of a call: its locks go, its files stay
Crash(p) ==
    /\ pc[p] \notin {"idle", "crashed"}
    /\ pc' = [pc EXCEPT ![p] = "crashed"]
    /\ locks' = [locks EXCEPT ![p] = "none"]
    /\ hist' = NoHist
    /\ UNCHANGED <<now, canonical, backups, archives, aux, temp, loc, result, pre,
                   budget, config, env>>

\* ------------------------------------------------------------ specification
\* the calls of UserDataManager
StoreStep(p) ==
    \/ CallList(p)
    \/ CallSave(p)
    \/ CreateBackup(p)
    \/ CleanupOldBackups(p)
    \/ SaveMkstemp(p)
    \/ SaveWrite(p)
    \/ SaveReplace(p)
    \/ SaveExcept(p)
    \/ CallDelete(p)
    \/ DeleteUnlink(p)
    \/ CallRestore(p)
    \/ RestoreLoad(p)
    \/ CallLoad(p)
    \/ LoadOpen(p)
    \/ LoadRead(p)

\* the calls of DataExporter
ImportStep(p) ==
    \/ CallImport(p)
    \/ ImportBackupExisting(p)
    \/ ImportProfileOpen(p)
    \/ ImportProfileWrite(p)
    \/ ImportAux(p)

Step(p) == StoreStep(p) \/ ImportStep(p)

\* one process uses the data directory through UserDataManager
Next == Tick(MaxTime) \/ StoreStep(1)

Spec == Init /\ [][Next]_vars

\* one process uses the data directory through UserDataManager and imports
\* bundles through DataExporter
NextImport == Tick(MaxImportTime) \/ Step(1)

SpecImport == InitImport /\ [][NextImport]_vars

\* two processes share the data directory and call UserDataManager
NextShared == Tick(MaxSharedTime) \/ \E p \in Procs : StoreStep(p) \/ Crash(p)

SpecShared == InitShared /\ [][NextShared]_vars

\* two processes that only load, on Linux and on Windows
InitReaders ==
    /\ InitProcs
    /\ budget = MaxSharedOps
    /\ config = NoFile
    /\ env \in {[DefaultEnv EXCEPT !.system = s] : s \in {"Linux", "Windows"}}
    /\ \/ EmptyStore
       \/ \E n \in {0, 1} : StoreAfter(n)

NextReaders ==
    \/ Tick(MaxSharedTime)
    \/ \E p \in Procs : CallLoad(p) \/ LoadOpen(p) \/ LoadRead(p)

SpecReaders == InitReaders /\ [][NextReaders]_vars

\* ------------------------------------------- exports and validations alone
\* the data directories an export is made from: any profile file, a resumes
\* folder that is missing, empty or holds a file, and a cover letters folder
\* that is missing or holds an empty file
StoredProfiles ==
    {NoFile, File(EmptyBytes, 0)}
        \cup {File(Serialize(r, 0), 0) : r \in Records \cup {BadRecord}}
StoredAux ==
    {[d \in AuxDirs |-> IF d = "resumes" THEN r ELSE c] :
        r \in {NoDir, Dir(<< >>), Dir("f1" :> RawBytes("x"))},
        c \in {NoDir, Dir("f1" :> EmptyBytes)}}

\* the ZIP files a validation is asked about: with any profile, with a
\* resume that is whole or cut to nothing or with none, with no metadata.json
\* or with one that lists any of three files (one metadata.json is of a
\* newer version of the application)
ListedFiles ==
    {FileMeta(ProfilePath, ImportedProfile.bytes),
     FileMeta(AuxPath("resumes", "f1"), RawBytes("x")),
     FileMeta(AuxPath("cover_letters", "f1"), RawBytes("x"))}
\* (three more are of newer versions, and list what the ZIP can hold)
ListedInBundle ==
    {FileMeta(ProfilePath, ImportedProfile.bytes),
     FileMeta(AuxPath("resumes", "f1"), RawBytes("x"))}
NewerVersions == {<<1, 0, 1>>, <<1, 10, 0>>, <<10, 0, 0>>}
BundleFamily ==
    {Bundle(profile, [d \in AuxDirs |-> IF d = "resumes" THEN r ELSE NoDir], m) :
        profile \in {NoFile, ImportedProfile, InvalidProfile,
                     File(RawBytes("x"), 0)},
        r \in {NoDir, Dir("f1" :> RawBytes("x")), Dir("f1" :> EmptyBytes)},
        m \in {NoManifest}
                \cup {Manifest(Version100, files) : files \in SUBSET ListedFiles}
                \cup {Manifest(Version200, ListedFiles)}
                \cup {Manifest(VersionString(t), ListedInBundle) :
                         t \in NewerVersions}}
        \cup {NoBundle, [NoBundle EXCEPT !.exists = TRUE]}

InitBundle ==
    /\ now = 0
    /\ canonical \in StoredProfiles
    /\ aux \in StoredAux
    /\ backups = << >>
    /\ archives = << >>
    /\ hist = NoHist
    /\ temp = [p \in Procs |-> NoFile]
    /\ locks = [p \in Procs |-> "none"]
    /\ pc = [p \in Procs |-> "idle"]
    /\ loc = [p \in Procs |-> NoLoc]
    /\ result = [p \in Procs |-> NoResult]
    /\ pre = [p \in Procs |->
                [canonical |-> NoFile, backups |-> << >>, archives |-> << >>,
                 aux |-> [d \in AuxDirs |-> NoDir], config |-> NoFile]]
    /\ config = NoFile
    /\ env = DefaultEnv
    /\ budget = MaxBundleOps

\* export_all() with the default output path: the ZIP is written and the
\* summary returned, or a copy or the writing of the ZIP raises OSError,
\* which nothing in export_all catches
CallExport(p) ==
    \E progress_callback \in BOOLEAN :
    LET l == [NoLoc EXCEPT !.op = "export",
                           !.progress_callback = progress_callback] IN
    /\ Begin(p)
    /\ \/ /\ archives' = (Stamp(now) :> ExportAll) @@ archives
          /\ Leave(p, [loc EXCEPT ![p] = l],
                   [NoResult EXCEPT
                       !.progress = IF progress_callback
                                      THEN ProgressCalls(ExportAll) ELSE << >>,
                       !.status = "ok",
                       !.backup_created = <<"zip", Stamp(now)>>,
                       !.metadata = ExportAll.manifest,
                       !.missing_directories = MissingDirs(aux),
                       !.warnings =
                           {DirectoryNotFound(MissingDirs(aux)[i]) :
                              i \in DOMAIN MissingDirs(aux)}])
       \/ /\ archives' \in ExportFailed(Stamp(now))
          /\ Leave(p, [loc EXCEPT ![p] = l],
                   [NoResult EXCEPT !.status = "OSError"])
    /\ UNCHANGED <<now, canonical, backups, aux, temp, locks, hist>>

\* _validate_backup(zip_path) for a ZIP of the family or one of the exports
CallValidate(p) ==
    \E b \in BundleFamily \cup {archives[n] : n \in DOMAIN archives} :
        LET validation == ValidateBackup(b) IN
        /\ Begin(p)
        /\ Leave(p, [loc EXCEPT ![p] =
                                [NoLoc EXCEPT !.op = "validate", !.bundle = b]],
                 [NoResult EXCEPT
                     !.status = "ok",
                     !.rec = IF validation.valid THEN "valid" ELSE "invalid",
                     !.errors = validation.errors,
                     !.warnings = validation.warnings,
                     !.metadata = validation.metadata])
        /\ UNCHANGED <<now, canonical, backups, archives, aux, temp, locks, hist>>

NextBundle == CallExport(1) \/ CallValidate(1)

\* one process saves, deletes, restores and lists in a data directory whose
\* backups folder is full or nearly so, and exports to the default path
InitRotation ==
    /\ InitProcs
    /\ budget = MaxOps
    /\ config = NoFile
    /\ env = DefaultEnv
    /\ \E n \in {MaxBackups - 1, MaxBackups} : StoreAfter(n)

NextRotation == Tick(MaxTime) \/ StoreStep(1) \/ CallExport(1)

SpecRotation == InitRotation /\ [][NextRotation]_vars

\* export_all alone, over data directories whose config.yaml nests mappings
\* and lists, with sensitive keys and others, with and without PyYAML
ConfigKeys == {"api_key", "Password", "my_token", "name"}

RECURSIVE ConfigTrees(_)
ConfigTrees(d) ==
    IF d = 0 THEN {Str("v")}
    ELSE LET T == ConfigTrees(d - 1) IN
         T \cup {Map(<<Entry(k, t)>>) : k \in ConfigKeys, t \in T}
           \cup {Map(<<Entry(x[1], t), Entry(x[2], Str("v"))>>) :
                    x \in {y \in ConfigKeys \X ConfigKeys : y[1] # y[2]},
                    t \in T}
           \cup {List(<<t>>) : t \in T}
           \cup {List(<<Str("v"), t>>) : t \in T}

InitRedact ==
    /\ InitProcs
    /\ EmptyStore \/ StoreAfter(0)
    /\ budget = MaxBundleOps
    /\ config \in {File(YamlBytes("", t), -TicksPerSec) :
                      t \in ConfigTrees(MaxDepth)}
    /\ env \in {[DefaultEnv EXCEPT !.yaml = y] : y \in BOOLEAN}

NextRedact == CallExport(1)

SpecRedact == InitRedact /\ [][NextRedact]_vars

SpecBundle == InitBundle /\ [][NextBundle]_vars

\* ================================================================== claims
AllIdle == \A p \in Procs : pc[p] = "idle"

\* the call op of process p has returned or raised
Done(p, op) == pc[p] = "idle" /\ loc[p].op = op /\ result[p].status # "-"

Count(f) == Cardinality(DOMAIN f)

\* C1: a save that fails while it writes the temporary file, forces it to
\* disk or renames it onto the canonical path raises IOError, and then the
\* canonical file is what it was when the call began and the temporary file
\* is gone, with create_backup true or false.
FailedSaveLeavesCanonical ==
    \A p \in Procs :
        /\ pc[p] = "sv_except" => canonical = pre[p].canonical
        /\ Done(p, "save") =>
              /\ result[p].status \in {"ok", "IOError", "OSError"}
              /\ result[p].status = "IOError" =>
                    canonical = pre[p].canonical /\ ~temp[p].exists

FailedSaveWitness ==
    /\ Done(1, "save")
    /\ result[1].status = "IOError"
    /\ loc[1].cb
    /\ pre[1].canonical.exists
    /\ canonical = pre[1].canonical
    /\ backups # pre[1].backups

\* C2: in every state the canonical file is absent or holds one complete
\* record that fits the profile schema.
CanonicalAlwaysSchemaValid ==
    canonical.exists => SchemaValid(canonical.bytes)

\* C3: every step of a save, and a crash in the middle of one, leaves the
\* canonical file as it is, except the rename, which puts the complete new
\* record there: whoever reads the file finds the previous record or the new.
SaveLabels ==
    {"bk_copy", "bk_cleanup", "sv_mktemp", "sv_write", "sv_replace", "sv_except"}

SaveSwitchesInOneStep ==
    [][\A p \in Procs :
          (loc[p].op = "save" /\ pc[p] \in SaveLabels /\ pc'[p] # pc[p]) =>
              \/ canonical' = canonical
              \/ /\ pc[p] = "sv_replace"
                 /\ canonical'.exists
                 /\ canonical'.bytes = loc[p].json]_vars

\* process 1 is about to rename while process 2 has the previous file open
SaveWithReaderWitness ==
    /\ loc[1].op = "save" /\ pc[1] = "sv_replace"
    /\ temp[1].exists /\ temp[1].bytes = loc[1].json
    /\ pc[2] = "ld_read" /\ locks[2] = "shared"
    /\ canonical.exists /\ loc[2].fh = canonical.bytes
    /\ canonical.bytes # loc[1].json

\* C4: a process that is about to replace or remove the canonical file holds
\* the exclusive lock on it, and no other process holds a lock then.
WriterLabels == {"sv_replace", "dl_unlink"}

WritersHoldExclusiveLock ==
    \A p \in Procs :
        pc[p] \in WriterLabels =>
            /\ locks[p] = "exclusive"
            /\ \A q \in Procs \ {p} : locks[q] = "none"

\* C5: a backup entry that exists keeps its bytes and times for as long as
\* it exists; creating a backup never writes over an entry.
BackupEntriesNeverOverwritten ==
    [][\A n \in DOMAIN backups :
          n \in DOMAIN backups' => backups'[n] = backups[n]]_vars

\* C6: from an empty store, after k saves that each replaced a canonical
\* file (k <= 10, create_backup true, the first save not counted) there are
\* exactly k backup entries.
EachOverwriteAddsOneBackup ==
    (AllIdle /\ hist.plain /\ hist.overwrites <= MaxBackups) =>
        Count(backups) = hist.overwrites

TenMostRecentRemain ==
    (AllIdle /\ hist.plain /\ hist.overwrites > MaxBackups) =>
        /\ Count(backups) = MaxBackups
        /\ {backups[n].bytes : n \in DOMAIN backups}
               = {hist.overwritten[i] : i \in 1..MaxBackups}

\* C9: after restore_from_backup(b) has returned on a store with a canonical
\* file, the canonical file holds the record of b as b was when the call
\* began, and some backup entry holds the bytes that were canonical then.
RestoreKeepsPreviousState ==
    \A p \in Procs :
        (Done(p, "restore") /\ result[p].status = "ok"
            /\ pre[p].canonical.exists) =>
            /\ canonical.exists
            /\ SchemaValid(canonical.bytes)
            /\ canonical.bytes.rec = pre[p].backups[loc[p].name[2]].bytes.rec
            /\ result[p].rec = canonical.bytes.rec
            /\ \E n \in DOMAIN backups :
                   backups[n].bytes = pre[p].canonical.bytes

\* save A, save B, restore the only backup: A is canonical, a backup holds B
RestoreWitness ==
    /\ Done(1, "restore") /\ result[1].status = "ok"
    /\ Count(pre[1].backups) = 1
    /\ pre[1].canonical.bytes.rec = "B"
    /\ canonical.bytes.rec = "A"
    /\ \E n \in DOMAIN backups \ DOMAIN pre[1].backups :
           backups[n].bytes = pre[1].canonical.bytes

\* C10: restore_from_backup of a name that does not exist raises
\* FileNotFoundError, and of a file that is no JSON or does not fit the
\* schema raises a validation error; in both cases the store is as it was.
StoreAsBefore(p) ==
    /\ canonical = pre[p].canonical
    /\ backups = pre[p].backups
    /\ archives = pre[p].archives
    /\ aux = pre[p].aux
    /\ config = pre[p].config

\* the file named name in the backups folder as it was when p's call began
NamedBefore(p, name) ==
    IF name[1] = "auto"
      THEN IF name[2] \in DOMAIN pre[p].backups
             THEN pre[p].backups[name[2]] ELSE NoFile
      ELSE IF name[2] \in DOMAIN pre[p].archives
             THEN File(ZipBytes, 0) ELSE NoFile

HeldByBackup(bytes) == \E n \in DOMAIN backups : backups[n].bytes = bytes

DeleteBacksUpFirst ==
    \A p \in Procs :
        loc[p].op = "delete" =>
            /\ (Done(p, "delete") /\ ~pre[p].canonical.exists) =>
                  /\ result[p].status = "ok" /\ result[p].rec = "False"
                  /\ StoreAsBefore(p)
            /\ pre[p].canonical.exists =>
                  /\ \/ canonical = pre[p].canonical
                     \/ ~canonical.exists /\ HeldByBackup(pre[p].canonical.bytes)
                  /\ pc[p] = "dl_unlink" =>
                        /\ canonical = pre[p].canonical
                        /\ HeldByBackup(pre[p].canonical.bytes)
                  /\ Done(p, "delete") =>
                        /\ result[p].status = "ok" /\ result[p].rec = "True"
                        /\ ~canonical.exists

\* a delete on a full backups folder: the rotation has kept the new entry
DeleteWitness ==
    /\ Done(1, "delete") /\ result[1].rec = "True"
    /\ Count(pre[1].backups) = MaxBackups
    /\ ~canonical.exists
    /\ \E n \in DOMAIN backups \ DOMAIN pre[1].backups :
           backups[n].bytes = pre[1].canonical.bytes

\* C14: import_from_backup of a ZIP that _validate_backup finds invalid (no
\* such path, no readable archive, a listed file missing, a size or a
\* checksum that differs from metadata.json, a profile that fails the
\* schema) raises ValueError with the errors found and leaves every file of
\* the data directory as it was.
InvalidBundleRefused ==
    \A p \in Procs :
        Done(p, "import") =>
            LET validation == ValidateBackup(loc[p].bundle) IN
            /\ ~validation.valid =>
                  /\ result[p].status = "ValueError"
                  /\ result[p].errors = validation.errors
                  /\ result[p].errors # {}
                  /\ StoreAsBefore(p)
            /\ result[p].status = "ValueError" => ~validation.valid

\* the changed export was refused on a store that holds a profile
RefusedWitness ==
    /\ Done(1, "import")
    /\ result[1].status = "ValueError"
    /\ Cardinality(result[1].errors) > 2
    /\ pre[1].canonical.exists
    /\ StoreAsBefore(1)

\* C15: for a readable ZIP with a metadata.json, _validate_backup reports an
\* error for each listed file that is missing, for each whose size differs
\* and for each whose checksum differs from the listed one, and an error when
\* the profile fails the schema, all in the one result; and the result is
\* valid exactly when it holds no error.
ValidationReportsAll ==
    \A p \in Procs :
        (Done(p, "validate") /\ loc[p].bundle.readable
            /\ loc[p].bundle.manifest.present) =>
            LET b == loc[p].bundle
                errors == result[p].errors
            IN
            /\ \A m \in b.manifest.files :
                  LET f == BundleFile(b, m.path) IN
                  /\ ~f.exists <=> <<"Missing file", m.path>> \in errors
                  /\ (f.exists /\ SizeOf(f.bytes) # m.size_bytes)
                         <=> <<"Size mismatch", m.path>> \in errors
                  /\ (f.exists
                         /\ CalculateChecksum(f.bytes) # m.checksum_sha256)
                         <=> <<"Checksum mismatch", m.path>> \in errors
            /\ (b.profile.exists /\ ~SchemaValid(b.profile.bytes))
                   <=> <<"Invalid user profile schema">> \in errors
            /\ result[p].rec = "valid" <=> errors = {}

\* one result with an error of each kind
AllErrorsWitness ==
    /\ Done(1, "validate")
    /\ {<<"Missing file", AuxPath("cover_letters", "f1")>>,
        <<"Size mismatch", AuxPath("resumes", "f1")>>,
        <<"Checksum mismatch", AuxPath("resumes", "f1")>>,
        <<"Checksum mismatch", ProfilePath>>,
        <<"Invalid user profile schema">>} \subseteq result[1].errors
    /\ result[1].rec = "invalid"

\* C16: in the ZIP that export_all writes, whatever the data directory holds,
\* every file that metadata.json lists is there with the listed size and
\* checksum, file_count is the number of listed files and total_size_bytes
\* the sum of their sizes; and when the stored profile fits the schema (or
\* there is none) _validate_backup finds the ZIP valid, with no error, and
\* returns its metadata.
ExportedBundles == {archives[n] : n \in DOMAIN archives} \cap {ExportAll}

ExportMatchesManifest ==
    /\ \A p \in Procs :
          (Done(p, "export") /\ result[p].status = "ok") =>
          LET b == archives[result[p].backup_created[2]] IN
          /\ b.manifest.present
          /\ \A m \in b.manifest.files :
                LET f == BundleFile(b, m.path) IN
                /\ f.exists
                /\ SizeOf(f.bytes) = m.size_bytes
                /\ CalculateChecksum(f.bytes) = m.checksum_sha256
          /\ \A x, y \in b.manifest.files : x.path = y.path => x = y
          /\ b.manifest.file_count = Cardinality(b.manifest.files)
          /\ b.manifest.total_size_bytes = TotalSize(b.manifest.files)
          /\ b.manifest.total_size_bytes =
                 (IF b.profile.exists THEN SizeOf(b.profile.bytes) ELSE 0)
                 + SizeOf(BundleFile(b, AuxPath("resumes", "f1")).bytes)
                 + SizeOf(BundleFile(b, AuxPath("cover_letters", "f1")).bytes)
                 + SizeOf(BundleFile(b, ConfigPath).bytes)
          /\ b = ExportAll
          /\ result[p].metadata = b.manifest
          /\ canonical = pre[p].canonical /\ aux = pre[p].aux
          /\ config = pre[p].config
    /\ \A p \in Procs :
          (Done(p, "validate") /\ loc[p].bundle \in ExportedBundles
              /\ (canonical.exists => SchemaValid(canonical.bytes))) =>
              /\ result[p].rec = "valid"
              /\ result[p].errors = {}
              /\ result[p].metadata = loc[p].bundle.manifest

\* an export of a profile, a resume and a cover letter was found valid
ExportValidWitness ==
    /\ Done(1, "validate")
    /\ loc[1].bundle \in ExportedBundles
    /\ loc[1].bundle.manifest.file_count = 3
    /\ loc[1].bundle.manifest.total_size_bytes = 3
    /\ result[1].rec = "valid"

\* C17: import_from_backup of the ZIP that export_all made of a store with a
\* valid profile and a resume, into a data directory that holds nothing,
\* leaves a canonical file with the same record, auxiliary folders with the
\* same files and bytes, and reports as many files restored as it copied.
FilesOf(dir) == IF dir.exists THEN dir.files ELSE << >>

ExportImportRoundTrip ==
    \A p \in Procs :
        (Done(p, "import") /\ result[p].status = "ok"
            /\ loc[p].bundle = ExportedElsewhere
            /\ ~pre[p].canonical.exists
            /\ \A d \in AuxDirs : FilesOf(pre[p].aux[d]) = << >>) =>
            /\ canonical.exists
            /\ SchemaValid(canonical.bytes)
            /\ ParseProfile(canonical.bytes, now) =
                   ParseProfile(ImportedProfile.bytes, now)
            /\ \A d \in AuxDirs : FilesOf(aux[d]) = FilesOf(OneResume[d])
            /\ result[p].files_restored = 2
            /\ result[p].backup_created = << >>

RoundTripImportWitness ==
    /\ Done(1, "import") /\ result[1].status = "ok"
    /\ loc[1].bundle = ExportedElsewhere
    /\ ~pre[1].canonical.exists
    /\ canonical.bytes.rec = "B"
    /\ aux["resumes"].files["f1"] = RawBytes("x")
    /\ result[1].files_restored = 2

\* C18: a readable ZIP without metadata.json is found valid, with no error
\* and with the warning that checksums could not be verified, and
\* import_from_backup is not refused: when it returns, the profile and the
\* auxiliary files of the ZIP are in the data directory.
ManifestlessAccepted ==
    \A p \in Procs :
        (Done(p, "import") /\ loc[p].bundle.readable
            /\ ~loc[p].bundle.manifest.present) =>
            LET b == loc[p].bundle
                validation == ValidateBackup(b)
            IN
            /\ validation.valid
            /\ validation.errors = {}
            /\ validation.warnings =
                   {"metadata.json not found - unable to verify checksums"}
            /\ result[p].status \in {"ok", "cancelled", "OSError"}
            /\ result[p].status = "ok" =>
                  /\ validation.warnings \subseteq result[p].warnings
                  /\ b.profile.exists =>
                        canonical.exists /\ canonical.bytes = b.profile.bytes
                  /\ \A d \in AuxDirs : \A n \in DOMAIN FilesOf(b.aux[d]) :
                        /\ n \in DOMAIN FilesOf(aux[d])
                        /\ aux[d].files[n] = b.aux[d].files[n]

ManifestlessWitness ==
    /\ Done(1, "import") /\ result[1].status = "ok"
    /\ ~loc[1].bundle.manifest.present
    /\ pre[1].canonical.exists
    /\ canonical.bytes = loc[1].bundle.profile.bytes
    /\ canonical.bytes # pre[1].canonical.bytes
    /\ aux["cover_letters"].exists
    /\ result[1].files_restored = 2

\* C19: when the data directory holds data and backup_existing is set,
\* import_from_backup exports the store before it changes any file of it:
\* the ZIP it reports as backup_created is the export of the store as the
\* call found it, and afterwards the canonical file holds the imported
\* profile.
ExportBefore(p) ==
    ExportWith(pre[p].canonical, pre[p].config, pre[p].aux, env.yaml)

ExistingBefore(p) ==
    \/ pre[p].canonical.exists
    \/ \E d \in AuxDirs : FilesOf(pre[p].aux[d]) # << >>

SafetyBundleHoldsPrevious ==
    \A p \in Procs :
        loc[p].op = "import" =>
            /\ pc[p] = "im_backup" =>
                  canonical = pre[p].canonical /\ aux = pre[p].aux
            /\ (pc[p] \in {"im_profile", "im_profile_write", "im_aux"}
                   /\ loc[p].backup_path # << >>) =>
                  archives[loc[p].backup_path[2]] =
                      ExportBefore(p)
            /\ (Done(p, "import") /\ result[p].status = "ok") =>
                  /\ result[p].backup_created # << >> =>
                        /\ loc[p].backup_existing /\ ExistingBefore(p)
                        /\ archives[result[p].backup_created[2]] =
                               ExportBefore(p)
                  /\ (loc[p].backup_existing /\ ExistingBefore(p)) =>
                        \/ result[p].backup_created # << >>
                        \/ "Failed to backup existing data" \in result[p].warnings
                  /\ loc[p].bundle.profile.exists =>
                        /\ canonical.exists
                        /\ canonical.bytes = loc[p].bundle.profile.bytes

SafetyBundleWitness ==
    /\ Done(1, "import") /\ result[1].status = "ok"
    /\ result[1].backup_created # << >>
    /\ pre[1].canonical.exists
    /\ archives[result[1].backup_created[2]].profile.bytes
           = pre[1].canonical.bytes
    /\ canonical.bytes.rec = "B"
    /\ pre[1].canonical.bytes.rec = "A"

\* C20: when the export of the existing data fails, import_from_backup keeps
\* a warning, reports no backup_created and goes on to restore the ZIP; and
\* an import that does not return success has changed no file of the data
\* directory, so that the store is never left partly overwritten.
ImportNeverPartial ==
    \A p \in Procs :
        Done(p, "import") =>
            /\ (result[p].status = "ok"
                   /\ "Failed to backup existing data" \in result[p].warnings) =>
                  result[p].backup_created = << >>
            /\ result[p].status # "ok" =>
                  canonical = pre[p].canonical /\ aux = pre[p].aux

\* C21: when the store holds data, confirmation is required and the callback
\* rejects, the import reports cancellation, the store is as it was before
\* the call and no safety backup was created; the callback is called at most
\* once in an import, and not at all when there was no existing data or when
\* confirmation was not required
CancelledImportChangesNothing ==
    \A p \in Procs :
        /\ loc[p].asked \in {0, 1}
        /\ Done(p, "import") =>
              /\ result[p].status = "cancelled" =>
                    /\ StoreAsBefore(p)
                    /\ ExistingBefore(p)
                    /\ loc[p].confirm
                    /\ loc[p].asked = 1
                    /\ result[p].backup_created = << >>
                    /\ result[p].files_restored = 0
              /\ (~ExistingBefore(p) \/ ~loc[p].confirm) =>
                    /\ loc[p].asked = 0
                    /\ result[p].status # "cancelled"

CancelledImportWitness ==
    \E p \in Procs :
        /\ Done(p, "import")
        /\ result[p].status = "cancelled"
        /\ loc[p].backup_existing
        /\ pre[p].canonical.exists
        /\ loc[p].bundle.profile.exists

\* C22: an import never creates, changes or removes the live config.yaml,
\* whatever configuration copy the bundle holds, and the result of every
\* import that succeeds carries the warning that the configuration was not
\* imported
ImportLeavesConfig ==
    \A p \in Procs :
        loc[p].op = "import" =>
            /\ config = pre[p].config
            /\ (Done(p, "import") /\ result[p].status = "ok") =>
                  "config.yaml not imported" \in result[p].warnings

ImportLeavesConfigWitness ==
    \E p \in Procs :
        /\ Done(p, "import")
        /\ result[p].status = "ok"
        /\ loc[p].bundle.config.exists
        /\ config = LiveConfig
        /\ loc[p].bundle.config.bytes.tree # config.bytes.tree
        /\ canonical = loc[p].bundle.profile

\* C23: when export_all fails at any step the failure is an IOError and no
\* partial bundle is left at the final output path: the backups folder
\* holds what it held before the call
FailedExportLeavesNoBundle ==
    \A p \in Procs :
        (Done(p, "export") /\ result[p].status # "ok") =>
            /\ result[p].status = "OSError"
            /\ archives = pre[p].archives

\* C24: in every bundle export_all makes of a data directory with a
\* config.yaml, the configuration copy holds the redaction marker for every
\* key that is api_key, secret, password or token in any case, at any depth
\* of mappings and lists, every other key keeps its value, and the live
\* config.yaml is not changed
RECURSIVE RedactedCopy(_, _)
RedactedCopy(original, copy) ==
    /\ copy.kind = original.kind
    /\ copy.val = original.val
    /\ DOMAIN copy.items = DOMAIN original.items
    /\ \A i \in DOMAIN original.items :
          /\ copy.items[i].key = original.items[i].key
          /\ IF original.kind = "map"
                   /\ Lower(original.items[i].key) \in SensitiveKeys
                THEN copy.items[i].value = Redacted
                ELSE RedactedCopy(original.items[i].value, copy.items[i].value)

ExportRedactsConfig ==
    \A p \in Procs :
        (Done(p, "export") /\ result[p].status = "ok" /\ config.exists) =>
            LET b == archives[result[p].backup_created[2]] IN
            /\ b.config.exists
            /\ RedactedCopy(config.bytes.tree, b.config.bytes.tree)
            /\ config = pre[p].config

\* C25: when two processes save at the same time, in whatever order their
\* steps are taken, once both saves have returned the canonical file holds,
\* as a complete document, the record of the process whose os.replace came
\* last, and the temporary file of neither is left
ConcurrentSavesLastWins ==
    (\A p \in Procs : Done(p, "save") /\ result[p].status = "ok") =>
        /\ hist.saved \in Records
        /\ canonical.exists
        /\ SchemaValid(canonical.bytes)
        /\ canonical.bytes.rec = hist.saved
        /\ \A p \in Procs : ~temp[p].exists

\* both saves began before either had replaced the file, and saved
\* different records
ConcurrentSavesWitness ==
    /\ \A p \in Procs : Done(p, "save") /\ result[p].status = "ok"
    /\ loc[1].rec # loc[2].rec
    /\ pre[1].canonical = pre[2].canonical
    /\ pre[1].canonical.exists
    /\ canonical.bytes.rec = loc[1].rec

\* C26: loads that run at the same time while nothing writes all succeed
\* and return the same record: the shared lock of one reader never makes
\* the load of another fail with "locked by another process", and every
\* load has released its lock when it has returned or raised
ConcurrentLoadsSucceed ==
    /\ \A p \in Procs :
          /\ pc[p] = "idle" => locks[p] = "none"
          /\ Done(p, "load") => result[p].status = "ok"
    /\ (\A p \in Procs : Done(p, "load")) =>
          \A p, q \in Procs : result[p].rec = result[q].rec

\* C27: every save that succeeds, the one inside restore_from_backup too,
\* writes the time of the call as last_updated: the document it puts in
\* place carries a time that is not before the time of the document it
\* replaces and not after the clock, also when an older backup is restored
SavedTimestampNeverDecreases ==
    [][\A p \in Procs :
          /\ (loc'[p].json # loc[p].json /\ loc'[p].json.json) =>
                loc'[p].json.ts = now
          /\ (pc[p] = "sv_replace" /\ canonical' # canonical) =>
                /\ canonical'.bytes.ts = loc[p].json.ts
                /\ canonical'.bytes.ts <= now
                /\ (canonical.exists /\ canonical.bytes.json) =>
                      canonical'.bytes.ts >= canonical.bytes.ts]_vars

\* a backup older than the canonical file was restored
RestoreOlderWitness ==
    \E p \in Procs :
        /\ Done(p, "restore")
        /\ result[p].status = "ok"
        /\ pre[p].canonical.exists
        /\ NamedBefore(p, loc[p].name).bytes.ts < pre[p].canonical.bytes.ts
        /\ canonical.bytes.ts > pre[p].canonical.bytes.ts
        /\ canonical.bytes.ts = now

\* C28: a save with create_backup=False leaves the backups folder exactly as
\* it was, whether or not there was a canonical file, and when it succeeds
\* the canonical file holds the new record
SaveWithoutBackupKeepsBackups ==
    \A p \in Procs :
        (loc[p].op = "save" /\ ~loc[p].cb) =>
            /\ backups = pre[p].backups
            /\ (Done(p, "save") /\ result[p].status = "ok") =>
                  /\ canonical.exists
                  /\ SchemaValid(canonical.bytes)
                  /\ canonical.bytes.rec = loc[p].rec

\* record B was saved over record A without a backup, next to a full
\* backups folder
SaveWithoutBackupWitness ==
    \E p \in Procs :
        /\ Done(p, "save") /\ result[p].status = "ok"
        /\ ~loc[p].cb
        /\ pre[p].canonical.exists
        /\ pre[p].canonical.bytes.rec = "A"
        /\ canonical.bytes.rec = "B"
        /\ Count(backups) = MaxBackups

\* C29: list_backups returns every backup entry exactly once, newest first
\* by the time the entry was made, and the created_at of an entry is the
\* time at which that backup was taken, the second its name carries: the
\* order by name and the order by modification time are the same
ListBackupsByCreation ==
    \A p \in Procs :
        Done(p, "list") =>
            LET l == result[p].listing IN
            /\ Len(l) = Count(backups)
            /\ \A n \in DOMAIN backups :
                  \E i \in DOMAIN l : l[i].filename = <<"auto", n>>
            /\ \A i \in DOMAIN l : Stamp(l[i].created_at) = l[i].filename[2]
            /\ \A i, j \in DOMAIN l :
                  i < j => l[i].filename[2] > l[j].filename[2]

\* C30: when a save has returned, with its result or with IOError, the
\* temporary file it made is gone: the data directory holds the canonical
\* file and the backups and no .tmp file of a call that has returned
NoTempAfterSave ==
    \A p \in Procs :
        (pc[p] = "idle" /\ loc[p].op \in {"save", "restore"}) =>
            /\ ~temp[p].exists
            /\ result[p].status \in
                   {"ok", "IOError", "OSError", "FileNotFoundError",
                    "ValueError", "ValidationError"}

\* a save that failed in os.replace, after the temporary file had been
\* written in full, has returned
FailedReplaceWitness ==
    \E p \in Procs :
        /\ Done(p, "save")
        /\ result[p].status = "IOError"
        /\ ~temp[p].exists
        /\ canonical = pre[p].canonical
        /\ canonical.exists
        /\ backups # pre[p].backups

\* C31: export_all succeeds on a data directory in which resumes/ or
\* cover_letters/ does not exist: every folder that is absent is in
\* missing_directories of metadata.json and of the summary, every folder
\* that exists is not, and every file of a folder that exists is listed in
\* metadata.json with its checksum
ExportListsMissingFolders ==
    \A p \in Procs :
        (Done(p, "export") /\ result[p].status = "ok") =>
            LET b == archives[result[p].backup_created[2]]
                listed(seq) == {seq[i] : i \in DOMAIN seq}
            IN
            /\ result[p].missing_directories = b.manifest.missing_directories
            /\ \A d \in AuxDirs :
                  /\ ~aux[d].exists <=>
                        d \in listed(b.manifest.missing_directories)
                  /\ ~aux[d].exists =>
                        DirectoryNotFound(d) \in result[p].warnings
                  /\ aux[d].exists =>
                        \A n \in DOMAIN aux[d].files :
                           FileMeta(AuxPath(d, n), aux[d].files[n])
                               \in b.manifest.files

\* resumes/ was missing and cover_letters/ held a file
MissingFolderWitness ==
    \E p \in Procs :
        /\ Done(p, "export") /\ result[p].status = "ok"
        /\ ~aux["resumes"].exists
        /\ aux["cover_letters"].exists
        /\ DOMAIN aux["cover_letters"].files # {}
        /\ result[p].missing_directories = <<"resumes">>
        /\ archives[result[p].backup_created[2]].manifest.file_count >= 1

\* C32: a metadata.json whose app_version is newer than the importer's own
\* 1.0.0 gives a warning and never an error: _validate_backup finds such a
\* ZIP valid exactly when it finds the same ZIP with app_version 1.0.0
\* valid, and with the same errors
NewerThanOwn(version) ==
    \E t \in NewerVersions \cup {<<1, 0, 0>>, <<2, 0, 0>>, <<0, 9, 9>>} :
        /\ VersionString(t) = version
        /\ \/ t[1] > 1
           \/ t[1] = 1 /\ t[2] > 0
           \/ t[1] = 1 /\ t[2] = 0 /\ t[3] > 0

NewerVersionOnlyWarns ==
    \A p \in Procs :
        (Done(p, "validate") /\ loc[p].bundle.readable
            /\ loc[p].bundle.manifest.present
            /\ NewerThanOwn(loc[p].bundle.manifest.app_version)) =>
            LET same == ValidateBackup(
                            [loc[p].bundle EXCEPT
                                !.manifest.app_version = VersionString(<<1, 0, 0>>)])
            IN
            /\ "Backup from newer version" \in result[p].warnings
            /\ (result[p].rec = "valid") = same.valid
            /\ result[p].errors = same.errors
            /\ same.warnings = {}

\* a ZIP of version 1.10.0 was found valid, with the warning
NewerVersionWitness ==
    \E p \in Procs :
        /\ Done(p, "validate")
        /\ loc[p].bundle.manifest.app_version = VersionString(<<1, 10, 0>>)
        /\ result[p].rec = "valid"
        /\ result[p].warnings = {"Backup from newer version"}
        /\ loc[p].bundle.manifest.file_count = 2

\* C33: with a progress callback export_all calls it once after each staged
\* file, in staging order; the cumulative bytes never decrease and never
\* exceed the total, and the total is, in every call, the byte total of the
\* whole export, total_size_bytes of metadata.json
ProgressReportsWholeTotal ==
    \A p \in Procs :
        (Done(p, "export") /\ result[p].status = "ok"
            /\ loc[p].progress_callback) =>
            LET b == archives[result[p].backup_created[2]]
                calls == result[p].progress
            IN
            /\ Len(calls) = b.manifest.file_count
            /\ \A i \in DOMAIN calls :
                  /\ calls[i].current_bytes <= calls[i].total_bytes
                  /\ calls[i].total_bytes = b.manifest.total_size_bytes
                  /\ \A j \in DOMAIN calls :
                        i < j => calls[i].current_bytes <= calls[j].current_bytes

LoadDuringDeleteReturns ==
    \A p, q \in Procs :
        (p # q /\ Done(p, "load") /\ loc[q].op = "delete"
            /\ pre[q].canonical.exists /\ SchemaValid(pre[q].canonical.bytes)) =>
            /\ result[p].status = "ok"
            /\ result[p].rec \in {"None", pre[q].canonical.bytes.rec}

\* the paths that metadata.json of the ZIP b lists
ListedPaths(b) == {m.path : m \in b.manifest.files}

\* C36: when the ZIP carries metadata.json, every file a finished import has
\* copied into the data directory is listed in it (and so had its size and
\* checksum verified); a file of the ZIP that is not listed is not restored
ImportCopiesOnlyListed ==
    \A p \in Procs :
        (Done(p, "import") /\ result[p].status = "ok"
            /\ loc[p].bundle.manifest.present) =>
            /\ canonical # pre[p].canonical => ProfilePath \in ListedPaths(loc[p].bundle)
            /\ \A d \in AuxDirs :
                  aux[d].exists =>
                      \A f \in DOMAIN aux[d].files :
                          (~pre[p].aux[d].exists
                              \/ f \notin DOMAIN pre[p].aux[d].files
                              \/ aux[d].files[f] # pre[p].aux[d].files[f]) =>
                              AuxPath(d, f) \in ListedPaths(loc[p].bundle)

\* C37: after a delete of a present profile, restore_from_backup of the
\* backup that the delete made brings the profile back with the deleted
\* record (the timestamp aside), and the restore makes no new backup, as
\* there was no canonical file to copy
RestoreAfterDelete ==
    \A p \in Procs :
        (Done(p, "restore") /\ result[p].status = "ok" /\ hist.deleted.exists
            /\ loc[p].name[2] \in DOMAIN pre[p].backups
            /\ pre[p].backups[loc[p].name[2]] = hist.deleted) =>
            /\ ~pre[p].canonical.exists
            /\ canonical.exists
            /\ SchemaValid(canonical.bytes)
            /\ canonical.bytes.rec = hist.deleted.bytes.rec
            /\ result[p].rec = hist.deleted.bytes.rec
            /\ backups = pre[p].backups

\* delete of a store without backups, then restore of the one backup there
\* is, which the delete made
RestoreAfterDeleteWitness ==
    \E p \in Procs :
        /\ Done(p, "restore") /\ result[p].status = "ok" /\ hist.deleted.exists
        /\ loc[p].name[2] \in DOMAIN pre[p].backups
        /\ pre[p].backups[loc[p].name[2]] = hist.deleted
        /\ Count(backups) = 1
        /\ canonical.exists
        /\ canonical.bytes.rec = "A"
        /\ canonical.bytes.ts > hist.deleted.bytes.ts

\* a step in which p leaves _cleanup_old_backups
RotationStep(p) == pc[p] = "bk_cleanup" /\ pc'[p] # "bk_cleanup"

\* a step in which list_backups returns to p
ListStep(p) == pc[p] = "idle" /\ budget' < budget /\ loc'[p].op = "list"

\* C38: the rotation unlinks and counts rolling backups (auto_backup_*)
\* only: the ZIPs that export_all writes at its default path in the backups
\* folder are never unlinked by it, take none of the 10 places, and are in no
\* list that list_backups returns
RotationSparesArchives ==
    [][\A p \in Procs :
          /\ RotationStep(p) =>
                /\ archives' = archives
                /\ DOMAIN backups' \subseteq DOMAIN backups
                /\ Count(backups') = IF Count(backups) > MaxBackups
                                        THEN MaxBackups ELSE Count(backups)
          /\ ListStep(p) =>
                /\ archives' = archives
                /\ Len(result'[p].listing) = Count(backups)
                /\ \A i \in DOMAIN result'[p].listing :
                      /\ result'[p].listing[i].filename[1] = "auto"
                      /\ result'[p].listing[i].filename[2] \in DOMAIN backups
    ]_vars

\* an export to the default path, then a save that fills the eleventh place
\* and whose rotation unlinks the oldest rolling backup: ten are kept, and
\* the ZIP
RotationAfterExportWitness ==
    \E p \in Procs :
        /\ loc[p].op = "save" /\ pc[p] = "sv_mktemp"
        /\ Count(pre[p].backups) = MaxBackups
        /\ Count(backups) = MaxBackups
        /\ backups # pre[p].backups
        /\ archives # << >>
        /\ archives = pre[p].archives
        /\ \E n \in DOMAIN archives : archives[n] \in ExportedBundles

\* C39: import_from_backup unlinks no file of the data directory: the
\* profile and the files of resumes/ and cover_letters/ that the ZIP does not
\* hold are as they were, and those it holds have the bytes of the ZIP after
\* an import that succeeded; so a ZIP without a profile leaves the canonical
\* file as it was
ImportDeletesNothing ==
    \A p \in Procs :
        Done(p, "import") =>
            LET b == loc[p].bundle IN
            /\ pre[p].canonical.exists => canonical.exists
            /\ ~b.profile.exists => canonical = pre[p].canonical
            /\ \A d \in AuxDirs :
                  pre[p].aux[d].exists =>
                      /\ aux[d].exists
                      /\ \A f \in DOMAIN pre[p].aux[d].files :
                            /\ f \in DOMAIN aux[d].files
                            /\ ~BundleFile(b, AuxPath(d, f)).exists =>
                                  aux[d].files[f] = pre[p].aux[d].files[f]
            /\ result[p].status = "ok" =>
                  /\ b.profile.exists => canonical.bytes = b.profile.bytes
                  /\ \A d \in AuxDirs : \A f \in AuxNames :
                        BundleFile(b, AuxPath(d, f)).exists =>
                            /\ aux[d].exists
                            /\ f \in DOMAIN aux[d].files
                            /\ aux[d].files[f] = BundleFile(b, AuxPath(d, f)).bytes

\* a ZIP without a profile and without cover letters is imported into a data
\* directory with a profile and a cover letter: the resume has the bytes of
\* the ZIP, the profile and the cover letter are as they were
ImportDeletesNothingWitness ==
    \E p \in Procs :
        /\ Done(p, "import") /\ result[p].status = "ok"
        /\ ~loc[p].bundle.profile.exists
        /\ pre[p].canonical.exists /\ canonical = pre[p].canonical
        /\ pre[p].aux["cover_letters"].exists
        /\ "f1" \in DOMAIN pre[p].aux["cover_letters"].files
        /\ ~loc[p].bundle.aux["cover_letters"].exists
        /\ aux["cover_letters"] = pre[p].aux["cover_letters"]
        /\ aux["resumes"] # pre[p].aux["resumes"]
        /\ aux["resumes"].files["f1"] = loc[p].bundle.aux["resumes"].files["f1"]

====
